---- MODULE Spec2Model ----
(***************************************************************************)
(* Model of canmi21/totp-auth: src/totp.rs (generate_token,                *)
(* generate_combined_token, verify_combined_token) and src/lib.rs (the     *)
(* wasm_* adapters).                                                       *)
(*                                                                         *)
(* Machine integers.  TLC's integers are 32 bits wide, the program's times *)
(* and windows are u64 and its step products are i64.  A 64-bit word is    *)
(* therefore a sequence of 8 bytes, least significant first, and an i64 is *)
(* the same 8 bytes read in two's complement; the arithmetic below is      *)
(* Rust's on those words at their full width.                              *)
(***************************************************************************)
EXTENDS Integers, Sequences, FiniteSets, TLC

----------------------------------------------------------------------------
(* 64-bit words *)

Byte == 256

WordLen == 8

Zero64 == <<0, 0, 0, 0, 0, 0, 0, 0>>

\* The word of a natural number below 2^31.
U64(n) == <<n % 256, (n \div 256) % 256, (n \div 65536) % 256,
            (n \div 16777216) % 256, 0, 0, 0, 0>>

RECURSIVE AddLimbs(_, _, _, _, _)
\* a + b + c over limbs i.., as <<limbs, carry out>>.
AddLimbs(a, b, i, c, acc) ==
    IF i > Len(a) THEN <<acc, c>>
    ELSE LET s == a[i] + b[i] + c
         IN  AddLimbs(a, b, i + 1, s \div Byte, Append(acc, s % Byte))

Complement(a) == [i \in 1..Len(a) |-> 255 - a[i]]

\* a + b mod 2^(8 Len(a)), and the carry out of the top limb.
AddWithCarry(a, b) == AddLimbs(a, b, 1, 0, <<>>)

\* a - b mod 2^(8 Len(a)); the carry out is 1 exactly when a >= b.
SubWithCarry(a, b) == AddLimbs(a, Complement(b), 1, 1, <<>>)

\* a >= b, both unsigned.
GreaterEq(a, b) == SubWithCarry(a, b)[2] = 1

IsZero(a) == \A i \in 1..Len(a) : a[i] = 0

\* Two's complement negation.
Negate(a) == AddLimbs(Complement(a), [i \in 1..Len(a) |-> 0], 1, 1, <<>>)[1]

\* The sign bit of the word read as an i64.
IsNegative(a) == a[WordLen] >= 128

\* |a| of the word read as an i64, as an unsigned word (2^63 for i64::MIN).
Magnitude(a) == IF IsNegative(a) THEN Negate(a) ELSE a

RECURSIVE ColumnSum(_, _, _, _)
\* The sum of a[i] * b[k + 1 - i] over the limbs i.. of column k.
ColumnSum(a, b, k, i) ==
    IF i > Len(a) \/ i > k THEN 0
    ELSE (IF k + 1 - i <= Len(b) THEN a[i] * b[k + 1 - i] ELSE 0)
         + ColumnSum(a, b, k, i + 1)

RECURSIVE MulLimbs(_, _, _, _, _)
\* The full 2*Len-limb product of two unsigned words.
MulLimbs(a, b, k, c, acc) ==
    IF k > Len(a) + Len(b) THEN acc
    ELSE LET s == ColumnSum(a, b, k, 1) + c
         IN  MulLimbs(a, b, k + 1, s \div Byte, Append(acc, s % Byte))

FullProduct(a, b) == MulLimbs(a, b, 1, 0, <<>>)

Low64(p) == SubSeq(p, 1, WordLen)

High64(p) == SubSeq(p, WordLen + 1, 2 * WordLen)

TwoTo63 == <<0, 0, 0, 0, 0, 0, 0, 128>>

\* u64 * u64: the wrapped product and whether the exact one needs more than 64 bits.
MulU64(a, b) ==
    LET p == FullProduct(a, b)
    IN  [wrapped |-> Low64(p), overflow |-> ~IsZero(High64(p))]

\* i64 * i64: the wrapped product and whether the exact one leaves
\* [-2^63, 2^63 - 1].
MulI64(a, b) ==
    LET p   == FullProduct(Magnitude(a), Magnitude(b))
        neg == IsNegative(a) # IsNegative(b)
        lo  == Low64(p)
        big == ~IsZero(High64(p)) \/ IsNegative(lo)
    IN  [wrapped  |-> IF neg THEN Negate(lo) ELSE lo,
         overflow |-> IF neg THEN big /\ ~(IsZero(High64(p)) /\ lo = TwoTo63)
                             ELSE big]

\* The i64 of a small integer.
I64(n) == IF n >= 0 THEN U64(n) ELSE Negate(U64(-n))

\* u64::wrapping_add_signed: the wrapped sum, and whether the exact sum
\* time + rhs leaves [0, 2^64 - 1].
AddSigned(a, rhs) ==
    LET r == AddWithCarry(a, rhs)
    IN  [wrapped  |-> r[1],
         overflow |-> IF IsNegative(rhs) THEN r[2] = 0 ELSE r[2] = 1]

RECURSIVE ShortDiv(_, _, _, _)
\* a / d for a divisor below 2^23, limb by limb from the top.
ShortDiv(a, d, i, r) ==
    IF i = 0 THEN <<>>
    ELSE LET x == r * Byte + a[i]
         IN  Append(ShortDiv(a, d, i - 1, x % d), x \div d)

\* The value of a word below 2^23 (its upper limbs are 0).
Small(a) == a[1] + 256 * a[2] + 65536 * a[3]

IsSmall(a) ==
    /\ \A i \in 4..WordLen : a[i] = 0
    /\ a[3] < 128

RECURSIVE ScaleLimbs(_, _, _, _, _)
\* d * q for one limb q, as Len(d) + 1 limbs.
ScaleLimbs(d, q, i, c, acc) ==
    IF i > Len(d) THEN Append(acc, c)
    ELSE LET s == d[i] * q + c
         IN  ScaleLimbs(d, q, i + 1, s \div Byte, Append(acc, s % Byte))

MulSmall(d, q) == ScaleLimbs(d, q, 1, 0, <<>>)

RECURSIVE TopLimb(_, _)
\* The index of the highest non-zero limb at or below i.
TopLimb(d, i) == IF d[i] # 0 THEN i ELSE TopLimb(d, i - 1)

RECURSIVE Correct(_, _, _)
\* Raises an under-estimated quotient digit q, with remainder r, to the digit.
Correct(r, d, q) ==
    IF GreaterEq(r, d) THEN Correct(SubWithCarry(r, d)[1], d, q + 1)
    ELSE <<q, r>>

RECURSIVE LongDiv(_, _, _, _, _)
\* a / d for a divisor of at least 2^23, whose highest non-zero limb is top:
\* schoolbook division in base 256.  r < d is the running remainder; each digit
\* is estimated from below from the leading limbs, then corrected.
LongDiv(a, d, top, i, r) ==
    IF i = 0 THEN <<>>
    ELSE LET x   == <<a[i]>> \o r
             est == (x[top + 1] * 65536 + x[top] * 256 + x[top - 1])
                    \div (d[top] * 256 + d[top - 1] + 1)
             qr  == Correct(SubWithCarry(x, MulSmall(d, est))[1],
                            Append(d, 0), est)
         IN  Append(LongDiv(a, d, top, i - 1, SubSeq(qr[2], 1, WordLen)), qr[1])

\* The limbs in the opposite order.
Reverse(s) == [i \in 1..Len(s) |-> s[Len(s) + 1 - i]]

\* u64 / u64 for a non-zero divisor.
Div64(a, d) ==
    IF IsSmall(d) THEN ShortDiv(a, Small(d), WordLen, 0)
    ELSE LET top   == TopLimb(d, WordLen)
             \* A quotient of a divisor of top limbs has at most
             \* WordLen - top + 1: the limbs of a above them start the remainder.
             first == WordLen - top + 1
         IN  LongDiv(a, d, top, first,
                     SubSeq(a, first + 1, WordLen) \o SubSeq(Zero64, 1, first))
             \o SubSeq(Zero64, 1, WordLen - first)

\* u64::to_be_bytes: the 8 bytes, most significant first.
to_be_bytes(a) == Reverse(a)

----------------------------------------------------------------------------
(* The keyed hash *)

(***************************************************************************)
(* HmacSha1 stands for the hmac and sha1 crates' HMAC-SHA1, which the      *)
(* repository calls and does not define: a deterministic function of the   *)
(* key bytes and the message bytes with a 20-byte digest, accepting a key  *)
(* of any length, the empty one included.  The digest here is a small      *)
(* mixing function with those properties, not SHA-1's.                     *)
(***************************************************************************)

DigestLen == 20

RECURSIVE Absorb(_, _, _, _, _)
Absorb(h, bytes, i, mult, prime) ==
    IF i > Len(bytes) THEN h
    ELSE Absorb((h * mult + bytes[i] + 1) % prime, bytes, i + 1, mult, prime)

RECURSIVE Squeeze(_, _, _)
Squeeze(s1, s2, n) ==
    IF n = 0 THEN <<>>
    ELSE LET a == (s1 * 75 + 74) % 65537
             b == (s2 * 171 + 11) % 30269
         IN  <<(a + b) % 256>> \o Squeeze(a, b, n - 1)

HmacSha1(key, msg) ==
    LET k1 == Absorb(17, key, 1, 257, 32749)
        k2 == Absorb(29, key, 1, 263, 32719)
    IN  Squeeze(Absorb(k1, msg, 1, 257, 32749),
                Absorb(k2, msg, 1, 263, 32719), DigestLen)

----------------------------------------------------------------------------
(* src/totp.rs *)

\* Seeds are Rust strings, that is UTF-8 byte sequences: a seed is modelled
\* as the sequence of its bytes, which is what seed.as_bytes() hands to the MAC.
as_bytes(seed) == seed

\* The dynamic truncation of lines 32..36: four bytes of the digest from the
\* offset its last byte names, the top bit of the first masked off.  The four
\* fields do not overlap, so the bitwise or is a sum.
Truncate(hash) ==
    LET offset == hash[Len(hash)] % 16
    IN  ((hash[offset + 1] % 128) * 16777216)
        + ((hash[offset + 2] % 256) * 65536)
        + ((hash[offset + 3] % 256) * 256)
        + (hash[offset + 4] % 256)

\* generate_token without the reduction of line 37.
generate_token_unreduced(seed, time, window) ==
    IF IsZero(window) THEN [panic |-> TRUE, code |-> 0]
    ELSE LET counter == Div64(time, window)
             hash    == HmacSha1(as_bytes(seed), to_be_bytes(counter))
         IN  [panic |-> FALSE, code |-> Truncate(hash)]

\* generate_token with the MAC taken over the time, not the counter.
generate_token_of_time(seed, time, window) ==
    IF IsZero(window) THEN [panic |-> TRUE, code |-> 0]
    ELSE LET hash == HmacSha1(as_bytes(seed), to_be_bytes(time))
         IN  [panic |-> FALSE, code |-> Truncate(hash) % 1000000]

\* generate_token: the u32 returned, or a panic (the division by a zero window).
generate_token(seed, time, window) ==
    IF IsZero(window) THEN [panic |-> TRUE, code |-> 0]
    ELSE LET counter == Div64(time, window)
             hash    == HmacSha1(as_bytes(seed), to_be_bytes(counter))
             code    == Truncate(hash)
         IN  [panic |-> FALSE, code |-> code % 1000000]

DigitChar == <<"0", "1", "2", "3", "4", "5", "6", "7", "8", "9">>

RECURSIVE Decimal(_)
\* The decimal digits of a natural number, without leading zeros.
Decimal(v) ==
    IF v < 10 THEN <<DigitChar[v + 1]>>
    ELSE Append(Decimal(v \div 10), DigitChar[(v % 10) + 1])

RECURSIVE PadLeft(_, _)
PadLeft(s, width) == IF Len(s) >= width THEN s ELSE PadLeft(<<"0">> \o s, width)

\* format!("{:06}", v): at least 6 characters, zero-padded on the left.
Format06(v) == PadLeft(Decimal(v), 6)

RECURSIVE Join(_, _)
\* [String]::join(sep)
Join(strs, sep) ==
    IF Len(strs) = 0 THEN <<>>
    ELSE IF Len(strs) = 1 THEN strs[1]
    ELSE strs[1] \o sep \o Join(Tail(strs), sep)

NumSeeds == 6

RECURSIVE MapTokens(_, _, _, _)
\* seeds.iter().map(|s| generate_token(s, time, window)) from the i-th seed
\* on, collected.
MapTokens(seeds, time, window, i) ==
    IF i > NumSeeds THEN <<>>
    ELSE <<generate_token(seeds[i], time, window)>>
         \o MapTokens(seeds, time, window, i + 1)

\* generate_combined_token with the seeds taken last to first.
generate_combined_token_reversed(seeds, time, window) ==
    LET codes == MapTokens(Reverse(seeds), time, window, 1)
    IN  IF \E i \in 1..NumSeeds : codes[i].panic
        THEN [panic |-> TRUE, token |-> <<>>]
        ELSE LET tokens == [i \in 1..NumSeeds |-> Format06(codes[i].code)]
             IN  [panic |-> FALSE, token |-> Join(tokens, <<"-">>)]

\* generate_combined_token: the String returned, or the panic of generate_token.
generate_combined_token(seeds, time, window) ==
    LET codes == MapTokens(seeds, time, window, 1)
    IN  IF \E i \in 1..NumSeeds : codes[i].panic
        THEN [panic |-> TRUE, token |-> <<>>]
        ELSE LET tokens == [i \in 1..NumSeeds |-> Format06(codes[i].code)]
             IN  [panic |-> FALSE, token |-> Join(tokens, <<"-">>)]

\* Delta with a unit other than "s" taken as milliseconds.
DeltaMillis(unit) == IF unit = "s" THEN 1 ELSE 1000

\* Line 98: both branches are 1.
Delta(unit) == IF unit = "s" THEN 1 ELSE 1

RECURSIVE StepPairs(_, _)
\* The pushes of the loop for i in 1..n: i and -i, for i = from .. n - 1.
StepPairs(from, n) ==
    IF from >= n THEN <<>> ELSE <<from, -from>> \o StepPairs(from + 1, n)

\* Steps with the list started empty: the current window is left out.
StepsWithoutCurrent(allowed_windows) ==
    IF allowed_windows \in {0, 1} THEN <<0>>
    ELSE StepPairs(1, allowed_windows)

\* Steps with the loop run over 1..=n.
StepsInclusive(allowed_windows) ==
    IF allowed_windows = 0 THEN <<0>>
    ELSE <<0>> \o StepPairs(1, allowed_windows + 1)

\* Lines 99..109: the offsets to try.
Steps(allowed_windows) ==
    IF allowed_windows \in {0, 1} THEN <<0>>
    ELSE <<0>> \o StepPairs(1, allowed_windows)

\* Lines 112..116: the time to try at a step.  With overflow checks (a debug
\* build) an overflowing multiplication panics; without them (a release build)
\* it wraps.  wrapping_add_signed wraps in both.
AdjustedTime(time, step, window, unit, overflow_checks) ==
    IF step = 0 THEN [panic |-> FALSE, t |-> time]
    ELSE LET scaled == MulU64(window, U64(Delta(unit)))
             prod   == MulI64(I64(step), scaled.wrapped)
         IN  IF overflow_checks /\ (scaled.overflow \/ prod.overflow)
             THEN [panic |-> TRUE, t |-> time]
             ELSE [panic |-> FALSE, t |-> AddSigned(time, prod.wrapped).wrapped]

RECURSIVE VerifyLoop(_, _, _, _, _, _, _, _)
\* Lines 111..122: the loop over the steps; tried collects the steps whose
\* token was compared, each with the time it was generated at.
VerifyLoop(seeds, time, token, window, unit, overflow_checks, steps, tried) ==
    IF steps = <<>> THEN [outcome |-> "value", ret |-> FALSE, tried |-> tried]
    ELSE LET step == Head(steps)
             adj  == AdjustedTime(time, step, window, unit, overflow_checks)
         IN  IF adj.panic
             THEN [outcome |-> "panic", ret |-> FALSE, tried |-> tried]
             ELSE LET gen_token == generate_combined_token(seeds, adj.t, window)
                      now == Append(tried, [step |-> step, t |-> adj.t])
                  IN  IF gen_token.panic
                      THEN [outcome |-> "panic", ret |-> FALSE, tried |-> tried]
                      ELSE IF gen_token.token = token
                      THEN [outcome |-> "value", ret |-> TRUE, tried |-> now]
                      ELSE VerifyLoop(seeds, time, token, window, unit,
                                      overflow_checks, Tail(steps), now)

\* verify_combined_token: the bool returned, or a panic.
verify_combined_token(seeds, time, token, window, allowed_windows, unit, overflow_checks) ==
    VerifyLoop(seeds, time, token, window, unit, overflow_checks,
               Steps(allowed_windows), <<>>)

----------------------------------------------------------------------------
(* src/lib.rs *)

EmptySeed == <<>>

\* Slots with take(5).
SlotsTakeFive(list) ==
    [i \in 1..NumSeeds |->
        IF i <= Len(list) /\ i <= 5 THEN list[i] ELSE EmptySeed]

\* Lines 11..14 and 27..30: the six slots, the first six of the list in order,
\* the slots past its end left empty.
Slots(list) ==
    [i \in 1..NumSeeds |-> IF i <= Len(list) THEN list[i] ELSE EmptySeed]

wasm_generate_combined_token(list, time, window) ==
    generate_combined_token(Slots(list), time, window)

wasm_verify_combined_token(list, time, token, window, allowed_windows, unit, overflow_checks) ==
    verify_combined_token(Slots(list), time, token, window, allowed_windows,
                          unit, overflow_checks)

----------------------------------------------------------------------------
(* The calls *)

\* The largest allowed_windows a call is made with.
MaxAllowed == 3

\* The longest seed list handed to an adapter.
MaxListLen == 7

\* The largest number of windows a candidate token is generated away from time.
MaxDrift == MaxAllowed + 1

Max64 == <<255, 255, 255, 255, 255, 255, 255, 255>>

TwoTo62 == <<0, 0, 0, 0, 0, 0, 0, 64>>

\* 2^64 - 30 and 2^64 - 17: the first and the last second of one 30 s window.
NearMaxA == <<226, 255, 255, 255, 255, 255, 255, 255>>

NearMaxB == <<239, 255, 255, 255, 255, 255, 255, 255>>

Times ==
    {Zero64, U64(29), U64(30), U64(1700000000), U64(1700000009), TwoTo62,
     TwoTo63, NearMaxA, NearMaxB, Max64}

Windows == {Zero64, U64(1), U64(30), TwoTo62, TwoTo63, Max64}

\* The times and windows verify is called with.
VerifyTimes == {Zero64, U64(30), U64(1700000000), TwoTo63, NearMaxA, Max64}

VerifyWindows == {Zero64, U64(30), TwoTo62, TwoTo63, Max64}

Units == {"s", "ms"}

\* "a", "b", ...: the i-th one-letter seed.
Letter(i) == <<96 + i>>

Abc == [i \in 1..NumSeeds |-> Letter(i)]

\* "sec", "", "a", "a", "bc", "cb"
Mixed == <<<<115, 101, 99>>, <<>>, <<97>>, <<97>>, <<98, 99>>, <<99, 98>>>>

SeedArrays == {Abc, Mixed}

VerifySeeds == {Abc, Mixed}

SeedValues == {<<>>, <<97>>, <<120, 121>>}

SeedLists == {[i \in 1..n |-> Letter(i)] : n \in 0..MaxListLen}

\* time + k * window in the integers: whether it is a u64, and the word if so.
ExactShift(time, k, window) ==
    LET p  == MulSmall(window, IF k >= 0 THEN k ELSE -k)
        t9 == Append(time, 0)
    IN  IF k >= 0
        THEN LET r == AddWithCarry(t9, p)
             IN  [ok |-> r[1][WordLen + 1] = 0, t |-> SubSeq(r[1], 1, WordLen)]
        ELSE LET r == SubWithCarry(t9, p)
             IN  [ok |-> r[2] = 1, t |-> SubSeq(r[1], 1, WordLen)]

\* The tokens a caller presents: the one generated k windows away from time,
\* for each k within far whose time exists, and a string that is no token.
Candidates(seeds, time, window, far) ==
    {[drifted |-> FALSE, drift |-> 0, token |-> <<>>]}
    \cup (IF IsZero(window) THEN {}
          ELSE {[drifted |-> TRUE, drift |-> k,
                 token |-> generate_combined_token(
                               seeds, ExactShift(time, k, window).t, window).token] :
                k \in {d \in -far..far : ExactShift(time, d, window).ok}})

VARIABLES
    op,               \* the call made: "none" before one and after its return
    list,             \* an adapter's seed list
    seeds,            \* the six seeds
    time,
    window,
    token,            \* verify: the candidate token
    allowed_windows,
    unit,
    drifted,          \* whether token was generated drift windows from time
    drift,
    overflow_checks,  \* the build: TRUE with overflow checks (debug)
    outcome,          \* "none", "value" (the call returned) or "panic"
    ret_token,        \* generate: the String returned
    ret_bool,         \* verify: the bool returned
    tried             \* verify: the steps compared, with their times

vars ==
    <<op, list, seeds, time, window, token, allowed_windows, unit, drifted,
      drift, overflow_checks, outcome, ret_token, ret_bool, tried>>

NoSeeds == [i \in 1..NumSeeds |-> EmptySeed]

Idle ==
    /\ op = "none"
    /\ list = <<>>
    /\ seeds = NoSeeds
    /\ time = Zero64
    /\ window = Zero64
    /\ token = <<>>
    /\ allowed_windows = 0
    /\ unit = "s"
    /\ drifted = FALSE
    /\ drift = 0
    /\ outcome = "none"
    /\ ret_token = <<>>
    /\ ret_bool = FALSE
    /\ tried = <<>>

Init ==
    /\ Idle
    /\ overflow_checks \in BOOLEAN

\* A call of generate_combined_token(s, tm, w), through the adapter or not.
Generated(name, l, s, tm, w, r) ==
    /\ op' = name
    /\ list' = l
    /\ seeds' = s
    /\ time' = tm
    /\ window' = w
    /\ outcome' = IF r.panic THEN "panic" ELSE "value"
    /\ ret_token' = r.token
    /\ UNCHANGED <<token, allowed_windows, unit, drifted, drift,
                   overflow_checks, ret_bool, tried>>

\* A call of verify_combined_token(s, tm, c.token, w, n, u), likewise.
Verified(name, l, s, tm, c, w, n, u, r) ==
    /\ op' = name
    /\ list' = l
    /\ seeds' = s
    /\ time' = tm
    /\ window' = w
    /\ token' = c.token
    /\ drifted' = c.drifted
    /\ drift' = c.drift
    /\ allowed_windows' = n
    /\ unit' = u
    /\ outcome' = r.outcome
    /\ ret_bool' = r.ret
    /\ tried' = r.tried
    /\ UNCHANGED <<overflow_checks, ret_token>>

Generate ==
    /\ op = "none"
    /\ \E s \in SeedArrays, tm \in Times, w \in Windows :
           Generated("generate", <<>>, s, tm, w,
                     generate_combined_token(s, tm, w))

Verify ==
    /\ op = "none"
    /\ \E s \in VerifySeeds, tm \in VerifyTimes, w \in VerifyWindows :
           \E c \in Candidates(s, tm, w, MaxDrift), n \in 0..MaxAllowed, u \in Units :
               Verified("verify", <<>>, s, tm, c, w, n, u,
                        verify_combined_token(s, tm, c.token, w, n, u,
                                              overflow_checks))

\* The times and windows the adapters are called with.
WasmTimes == {Zero64, U64(1700000000)}

WasmVerifyTimes == {U64(1700000000)}

WasmWindows == {Zero64, U64(30)}

WasmGenerate ==
    /\ op = "none"
    /\ \E l \in SeedLists, tm \in WasmTimes, w \in WasmWindows :
           Generated("wasm_generate", l, Slots(l), tm, w,
                     wasm_generate_combined_token(l, tm, w))

WasmVerify ==
    /\ op = "none"
    /\ \E l \in SeedLists, tm \in WasmVerifyTimes, w \in WasmWindows :
           \E c \in Candidates(Slots(l), tm, w, 1), n \in 0..MaxAllowed, u \in Units :
               Verified("wasm_verify", l, Slots(l), tm, c, w, n, u,
                        wasm_verify_combined_token(l, tm, c.token, w, n, u,
                                                   overflow_checks))

\* The caller takes the result: nothing of a call outlives it.
Return ==
    /\ op # "none"
    /\ op' = "none"
    /\ list' = <<>>
    /\ seeds' = NoSeeds
    /\ time' = Zero64
    /\ window' = Zero64
    /\ token' = <<>>
    /\ allowed_windows' = 0
    /\ unit' = "s"
    /\ drifted' = FALSE
    /\ drift' = 0
    /\ outcome' = "none"
    /\ ret_token' = <<>>
    /\ ret_bool' = FALSE
    /\ tried' = <<>>
    /\ UNCHANGED overflow_checks

Next == Generate \/ Verify \/ WasmGenerate \/ WasmVerify \/ Return

Spec == Init /\ [][Next]_vars

----------------------------------------------------------------------------
(* Properties *)

Abs(k) == IF k >= 0 THEN k ELSE -k

Digits == {DigitChar[i] : i \in 1..10}

\* The i-th group of a compound token: six characters, then a separator.
Group(tok, i) == SubSeq(tok, 7 * (i - 1) + 1, 7 * (i - 1) + 6)

\* Six groups of exactly six decimal digits, five "-" between them.
SixGroups(tok) ==
    /\ \A i \in 1..NumSeeds : \A j \in 1..6 : Group(tok, i)[j] \in Digits
    /\ \A i \in 1..(NumSeeds - 1) : tok[7 * i] = "-"

VerifyReturned == op = "verify" /\ outcome # "none"

\* C1: Drift tolerance.  A token generated at time + drift * window, a time
\* that exists as a u64, is accepted by verify_combined_token with
\* allowed_windows = n >= 1 exactly when |drift| <= n - 1.
C1_DriftTolerance ==
    (VerifyReturned /\ drifted /\ allowed_windows >= 1)
        => /\ outcome = "value"
           /\ ret_bool <=> (Abs(drift) <= allowed_windows - 1)

\* C2: Round trip.  The token generated at time itself is accepted by
\* verify_combined_token for every allowed_windows >= 1, window > 0 and unit.
C2_RoundTrip ==
    (VerifyReturned /\ drifted /\ drift = 0 /\ allowed_windows >= 1)
        => outcome = "value" /\ ret_bool

C2_Witness ==
    /\ VerifyReturned /\ drifted /\ drift = 0
    /\ allowed_windows = MaxAllowed /\ unit = "ms"
    /\ time = Max64 /\ ret_bool
    /\ tried = <<[step |-> 0, t |-> time]>>

\* C3: Invalid window.  A call with window = 0 ends in an explicit
\* input-validation failure returned to the caller, never in a crash.  (The
\* outcomes the code has are "value" and "panic".)
C3_ZeroWindowRejected ==
    (op # "none" /\ IsZero(window)) => outcome = "rejected"

\* C4: Adjusted time.  Every step verify_combined_token compares a token at
\* uses the exact time + step * window, with a product inside the i64 range,
\* or, when that time is not a u64, the saturated one; and the call does not
\* fault.
C4_AdjustedTimeInRange ==
    (op \in {"verify", "wasm_verify"} /\ ~IsZero(window))
        => /\ outcome # "panic"
           /\ \A i \in 1..Len(tried) :
                  LET e == tried[i]
                      x == ExactShift(time, e.step, window)
                  IN  \/ /\ x.ok
                         /\ e.t = x.t
                         /\ ~MulI64(I64(e.step), window).overflow
                      \/ /\ ~x.ok
                         /\ e.t = IF e.step < 0 THEN Zero64 ELSE Max64

\* C5: Zero edge.  With allowed_windows = 0 verify_combined_token returns what
\* it returns with allowed_windows = 1, and in both cases the only step
\* compared is 0, at the unadjusted time.
C5_ZeroEdge ==
    (VerifyReturned /\ allowed_windows \in {0, 1} /\ ~IsZero(window))
        => LET other == verify_combined_token(seeds, time, token, window,
                                              1 - allowed_windows, unit,
                                              overflow_checks)
           IN  /\ outcome = "value"
               /\ other.outcome = outcome
               /\ other.ret = ret_bool
               /\ tried = <<[step |-> 0, t |-> time]>>
               /\ other.tried = tried

C5_Witness ==
    /\ VerifyReturned /\ allowed_windows = 0
    /\ drifted /\ drift = 1 /\ ~IsZero(window)
    /\ outcome = "value" /\ ~ret_bool

\* C6 as claimed: the string generate_combined_token returns is exactly 35
\* characters long, six groups of six digits with five "-" between them.
C6_Length35 ==
    (op \in {"generate", "wasm_generate"} /\ outcome = "value")
        => Len(ret_token) = 35 /\ SixGroups(ret_token)

\* C6 as amended: the string generate_combined_token returns is exactly 41
\* characters long: six groups of exactly six decimal digits (zero-padded,
\* so each value is in 0..999999) with five "-" between them, for every
\* seeds (empty ones included), time and window > 0.
C6_CompoundFormat ==
    (op \in {"generate", "wasm_generate"} /\ outcome = "value")
        => Len(ret_token) = 41 /\ SixGroups(ret_token)

\* A token with an empty seed and a group that needed its zero padding.
C6_Witness ==
    /\ op = "generate" /\ outcome = "value"
    /\ \E i \in 1..NumSeeds : seeds[i] = EmptySeed
    /\ \E i \in 1..NumSeeds : Group(ret_token, i)[1] = "0"

\* C7: Window floor.  Two times with the same time / window give the same
\* compound token.
C7_WindowFloor ==
    (op = "generate" /\ outcome = "value")
        => \A t2 \in Times :
               Div64(t2, window) = Div64(time, window)
                   => generate_combined_token(seeds, t2, window).token = ret_token

C7_Witness ==
    /\ op = "generate" /\ outcome = "value"
    /\ time = NearMaxB /\ window = U64(30)
    /\ \E t2 \in Times \ {time} : Div64(t2, window) = Div64(time, window)

\* C8: Seed order and independence.  The i-th group of the compound token is
\* the token of seeds[i], and replacing one seed leaves the other five groups
\* as they were.
C8_SeedOrder ==
    (op = "generate" /\ outcome = "value")
        => /\ \A i \in 1..NumSeeds :
                  Group(ret_token, i)
                      = Format06(generate_token(seeds[i], time, window).code)
           /\ \A j \in 1..NumSeeds : \A v \in SeedValues :
                  LET alt == generate_combined_token([seeds EXCEPT ![j] = v],
                                                     time, window).token
                  IN  \A i \in 1..NumSeeds \ {j} :
                          Group(alt, i) = Group(ret_token, i)

C8_Witness ==
    /\ op = "generate" /\ outcome = "value" /\ seeds = Abc
    /\ \A i, j \in 1..NumSeeds :
           i # j => Group(ret_token, i) # Group(ret_token, j)

\* C9: Inert unit.  verify_combined_token returns the same for every unit
\* string, the other arguments being equal.
C9_InertUnit ==
    VerifyReturned
        => \A u \in (Units \cup {""}) \ {unit} :
               LET r == verify_combined_token(seeds, time, token, window,
                                              allowed_windows, u,
                                              overflow_checks)
               IN  r.outcome = outcome /\ r.ret = ret_bool /\ r.tried = tried

\* A call with a unit other than "s" that accepted a token of a later window.
C9_Witness ==
    /\ VerifyReturned /\ unit = "ms" /\ allowed_windows >= 2
    /\ drifted /\ drift = 1
    /\ outcome = "value" /\ ret_bool

\* The six slots of a list padded on the left: the empty seeds first.
LeftPadded(l) ==
    IF Len(l) >= NumSeeds THEN SubSeq(l, 1, NumSeeds)
    ELSE [i \in 1..(NumSeeds - Len(l)) |-> EmptySeed] \o l

\* The six slots of a list padded on the right: the empty seeds last.
RightPadded(l) ==
    IF Len(l) >= NumSeeds THEN SubSeq(l, 1, NumSeeds)
    ELSE l \o [i \in 1..(NumSeeds - Len(l)) |-> EmptySeed]

\* What an adapter's call returned is what the function it wraps returns on
\* the six slots s, the other arguments being those of the call.
Delegates(s) ==
    /\ op = "wasm_generate"
           => LET r == generate_combined_token(s, time, window)
              IN  /\ (outcome = "panic") = r.panic
                  /\ ret_token = r.token
    /\ op = "wasm_verify"
           => LET r == verify_combined_token(s, time, token, window,
                                             allowed_windows, unit,
                                             overflow_checks)
              IN  r.outcome = outcome /\ r.ret = ret_bool

\* C10 as claimed: the adapters map a seed list of any length onto six slots
\* by left-padding with empty seeds and dropping the seeds past the sixth, and
\* return what generate_combined_token / verify_combined_token return on them.
C10_LeftPadded ==
    op \in {"wasm_generate", "wasm_verify"} => Delegates(LeftPadded(list))

\* C10 as amended: the adapters map a seed list of any length onto six slots
\* by right-padding: the seeds given fill the leading slots in order, the
\* slots after them are empty seeds, the seeds past the sixth are dropped; and
\* they return what generate_combined_token / verify_combined_token return on
\* those slots.
C10_SlotMapping ==
    op \in {"wasm_generate", "wasm_verify"} => Delegates(RightPadded(list))

C10_Witness ==
    /\ op = "wasm_verify" /\ Len(list) = 2
    /\ outcome = "value" /\ ret_bool
====
